---- MODULE Spec2Model ----
(***************************************************************************)
(* Explicit VR Big Endian data element codec                               *)
(* (core/src/data_element/explicit_be.rs).                                 *)
(*                                                                         *)
(* A session: a caller encodes headers and value bytes into a byte sink,   *)
(* the written buffer (or a truncated copy of it) is then wrapped in a     *)
(* cursor, and a caller decodes headers and scalars from it, reading or    *)
(* skipping value bytes in between.                                        *)
(***************************************************************************)
EXTENDS Integers, Sequences, FiniteSets

VARIABLES sink, wlog, phase, source, pos, res

vars == <<sink, wlog, phase, source, pos, res>>

(* ------------------------------ bounds --------------------------------- *)

\* capacity of the buffer behind the sink, in bytes
MaxBuf == 16
\* most bytes a caller reads or skips in one call
MaxRead == 2
\* most trailing bytes lost when the written buffer reaches the reader
MaxCut == 2

(* --------------------------- byteorder crate --------------------------- *)

\* BigEndian::write_u16
write_u16(x) == << x \div 256, x % 256 >>

\* A 32-bit quantity n is held as the pair of its 16-bit halves
\* << n \div 2^16, n % 2^16 >>; for an i32 the high half is signed.

\* BigEndian::write_u32
write_u32(x) ==
    << x[1] \div 256, x[1] % 256, x[2] \div 256, x[2] % 256 >>

\* BigEndian::read_u16
read_u16(b) == b[1] * 256 + b[2]

\* BigEndian::read_u32
read_u32(b) == << b[1] * 256 + b[2], b[3] * 256 + b[4] >>

\* the bytes read as unsigned
read_i16_unsigned(b) == b[1] * 256 + b[2]

\* BigEndian::read_i16
read_i16(b) == IF read_u16(b) >= 32768 THEN read_u16(b) - 65536 ELSE read_u16(b)

\* BigEndian::read_i32
read_i32(b) ==
    IF b[1] >= 128
    THEN << b[1] * 256 + b[2] - 65536, b[3] * 256 + b[4] >>
    ELSE << b[1] * 256 + b[2], b[3] * 256 + b[4] >>

\* a saturating conversion in place of the wrapping one
as_u16_saturating(x) == IF x[1] > 0 THEN 65535 ELSE x[2]

\* `x as u16` of a u32
as_u16(x) == x[2]

\* `x as u32` of a u16
as_u32(x) == << 0, x >>

Zero32 == << 0, 0 >>

\* buf[off..] overwritten with bytes (off counted from 0)
WriteAt(buf, off, bytes) ==
    [i \in 1..Len(buf) |->
        IF i > off /\ i <= off + Len(bytes) THEN bytes[i - off] ELSE buf[i]]

Zeroes(n) == [i \in 1..n |-> 0]

(* ------------------------ ValueRepresentation -------------------------- *)

\* the registry: every variant with its two ASCII bytes
VRTable ==
    { <<"AE", <<65, 69>>>>, <<"AS", <<65, 83>>>>, <<"AT", <<65, 84>>>>,
      <<"CS", <<67, 83>>>>, <<"DA", <<68, 65>>>>, <<"DS", <<68, 83>>>>,
      <<"DT", <<68, 84>>>>, <<"FL", <<70, 76>>>>, <<"FD", <<70, 68>>>>,
      <<"IS", <<73, 83>>>>, <<"LO", <<76, 79>>>>, <<"LT", <<76, 84>>>>,
      <<"OB", <<79, 66>>>>, <<"OD", <<79, 68>>>>, <<"OF", <<79, 70>>>>,
      <<"OL", <<79, 76>>>>, <<"OW", <<79, 87>>>>, <<"PN", <<80, 78>>>>,
      <<"SH", <<83, 72>>>>, <<"SL", <<83, 76>>>>, <<"SQ", <<83, 81>>>>,
      <<"SS", <<83, 83>>>>, <<"ST", <<83, 84>>>>, <<"TM", <<84, 77>>>>,
      <<"UC", <<85, 67>>>>, <<"UI", <<85, 73>>>>, <<"UL", <<85, 76>>>>,
      <<"UN", <<85, 78>>>>, <<"UR", <<85, 82>>>>, <<"US", <<85, 83>>>>,
      <<"UT", <<85, 84>>>> }

VRs == { e[1] : e \in VRTable }

\* ValueRepresentation::to_bytes
to_bytes(vr) == (CHOOSE e \in VRTable : e[1] = vr)[2]

\* ValueRepresentation::from_binary, "None" when no variant has the code
from_binary(b) ==
    IF \E e \in VRTable : e[2] = b
    THEN (CHOOSE e \in VRTable : e[2] = b)[1]
    ELSE "None"

\* the lookup result passed on without the fallback
unwrap_or_missing(o, d) == o

\* Option::unwrap_or
unwrap_or(o, d) == IF o = "None" THEN d ELSE o

(* ------------------------- SequenceItemHeader -------------------------- *)

\* SequenceItemHeader::new
SequenceItemHeader_new(tag, len) ==
    IF tag \in { <<65534, 57344>>, <<65534, 57357>>, <<65534, 57565>> }
    THEN [status |-> "Ok", tag |-> tag, len |-> len]
    ELSE [status |-> "InvalidFormat", tag |-> <<0, 0>>, len |-> Zero32]

(* ------------------------------ encoder -------------------------------- *)

\* the encoder's list without the VRs added last
EncLongForm_drift(vr) ==
    vr \in {"OB", "OD", "OF", "OL", "OW", "SQ", "UT", "UN"}

\* the match arm of encode_element_header taken for vr
EncLongForm(vr) ==
    vr \in {"OB", "OD", "OF", "OL", "OW", "SQ", "UC", "UR", "UT", "UN"}

\* the long-form length written right after the VR code
encode_element_header_noreserved(de) ==
    IF EncLongForm(de.vr)
    THEN LET b0 == Zeroes(12)
             b1 == WriteAt(b0, 0, write_u16(de.tag[1]))
             b2 == WriteAt(b1, 2, write_u16(de.tag[2]))
             b3 == WriteAt(b2, 4, to_bytes(de.vr))
         IN  WriteAt(b3, 6, write_u32(de.len))
    ELSE LET b0 == Zeroes(8)
             b1 == WriteAt(b0, 0, write_u16(de.tag[1]))
             b2 == WriteAt(b1, 2, write_u16(de.tag[2]))
             b3 == WriteAt(b2, 4, to_bytes(de.vr))
         IN  WriteAt(b3, 6, write_u16(as_u16(de.len)))

\* the bytes encode_element_header hands to write_all
encode_element_header(de) ==
    IF EncLongForm(de.vr)
    THEN LET b0 == Zeroes(12)
             b1 == WriteAt(b0, 0, write_u16(de.tag[1]))
             b2 == WriteAt(b1, 2, write_u16(de.tag[2]))
             b3 == WriteAt(b2, 4, to_bytes(de.vr))
         IN  WriteAt(b3, 8, write_u32(de.len))
    ELSE LET b0 == Zeroes(8)
             b1 == WriteAt(b0, 0, write_u16(de.tag[1]))
             b2 == WriteAt(b1, 2, write_u16(de.tag[2]))
             b3 == WriteAt(b2, 4, to_bytes(de.vr))
         IN  WriteAt(b3, 6, write_u16(as_u16(de.len)))

\* the bytes encode_item_header hands to write_all: both write_u16 calls
\* receive &mut buf, so both write at offset 0
encode_item_header(len) ==
    LET b0 == Zeroes(8)
        b1 == WriteAt(b0, 0, write_u16(65534))
        b2 == WriteAt(b1, 0, write_u16(57344))
    IN  WriteAt(b2, 4, write_u32(len))

\* the bytes encode_item_delimiter hands to write_all
encode_item_delimiter ==
    LET b0 == Zeroes(8)
        b1 == WriteAt(b0, 0, write_u16(65534))
        b2 == WriteAt(b1, 0, write_u16(57357))
    IN  WriteAt(b2, 4, write_u32(Zero32))

\* the bytes encode_sequence_delimiter hands to write_all
encode_sequence_delimiter ==
    LET b0 == Zeroes(8)
        b1 == WriteAt(b0, 0, write_u16(65534))
        b2 == WriteAt(b1, 0, write_u16(57565))
    IN  WriteAt(b2, 4, write_u32(Zero32))

(* ------------------------------ decoder -------------------------------- *)

\* a read that refuses to take the last byte of the source
read_exact_strict(src, p, n) ==
    IF p + n < Len(src)
    THEN [ok |-> TRUE, buf |-> SubSeq(src, p + 1, p + n), pos |-> p + n]
    ELSE [ok |-> FALSE, buf |-> <<>>, pos |-> p]

\* Read::read_exact on src at offset p
read_exact(src, p, n) ==
    IF p + n <= Len(src)
    THEN [ok |-> TRUE, buf |-> SubSeq(src, p + 1, p + n), pos |-> p + n]
    ELSE [ok |-> FALSE, buf |-> <<>>, pos |-> p]

NoTag == <<0, 0>>

\* what a decoder call returns, and where it leaves the cursor; val holds a
\* 16-bit scalar, val32 a 32-bit one
Outcome(status, tag, vr, len, val, val32, at) ==
    [status |-> status, tag |-> tag, vr |-> vr, len |-> len, val |-> val,
     val32 |-> val32, pos |-> at]

IoError(at) == Outcome("Io", NoTag, "None", Zero32, 0, Zero32, at)

\* the decoder's list without the fallback VR
DecLongForm_drift(vr) ==
    vr \in {"OB", "OD", "OF", "OL", "OW", "SQ", "UC", "UR", "UT"}

\* the match arm of decode_header taken for vr
DecLongForm(vr) ==
    vr \in {"OB", "OD", "OF", "OL", "OW", "SQ", "UC", "UR", "UT", "UN"}

decode_header(src, p) ==
    LET r1 == read_exact(src, p, 4) IN
    IF ~r1.ok THEN IoError(r1.pos) ELSE
    LET group   == read_u16(SubSeq(r1.buf, 1, 2))
        element == read_u16(SubSeq(r1.buf, 3, 4))
        r2      == read_exact(src, r1.pos, 2)
    IN
    IF ~r2.ok THEN IoError(r2.pos) ELSE
    LET vr == unwrap_or(from_binary(r2.buf), "UN") IN
    IF DecLongForm(vr)
    THEN LET r3 == read_exact(src, r2.pos, 2) IN
         IF ~r3.ok THEN IoError(r3.pos) ELSE
         LET r4 == read_exact(src, r3.pos, 4) IN
         IF ~r4.ok THEN IoError(r4.pos) ELSE
         Outcome("Ok", <<group, element>>, vr, read_u32(r4.buf), 0, Zero32,
                 r4.pos)
    ELSE LET r3 == read_exact(src, r2.pos, 2) IN
         IF ~r3.ok THEN IoError(r3.pos) ELSE
         Outcome("Ok", <<group, element>>, vr, as_u32(read_u16(r3.buf)), 0,
                 Zero32, r3.pos)

\* element read before group
decode_item_header_swapped(src, p) ==
    LET r1 == read_exact(src, p, 4) IN
    IF ~r1.ok THEN IoError(r1.pos) ELSE
    LET element == read_u16(SubSeq(r1.buf, 1, 2))
        group   == read_u16(SubSeq(r1.buf, 3, 4))
        r2      == read_exact(src, r1.pos, 4)
    IN
    IF ~r2.ok THEN IoError(r2.pos) ELSE
    LET h == SequenceItemHeader_new(<<group, element>>, read_u32(r2.buf)) IN
    Outcome(h.status, h.tag, "None", h.len, 0, Zero32, r2.pos)

decode_item_header(src, p) ==
    LET r1 == read_exact(src, p, 4) IN
    IF ~r1.ok THEN IoError(r1.pos) ELSE
    LET group   == read_u16(SubSeq(r1.buf, 1, 2))
        element == read_u16(SubSeq(r1.buf, 3, 4))
        r2      == read_exact(src, r1.pos, 4)
    IN
    IF ~r2.ok THEN IoError(r2.pos) ELSE
    LET h == SequenceItemHeader_new(<<group, element>>, read_u32(r2.buf)) IN
    Outcome(h.status, h.tag, "None", h.len, 0, Zero32, r2.pos)

decode_us(src, p) ==
    LET r == read_exact(src, p, 2) IN
    IF ~r.ok THEN IoError(r.pos)
    ELSE Outcome("Ok", NoTag, "None", Zero32, read_u16(r.buf), Zero32, r.pos)

decode_ul(src, p) ==
    LET r == read_exact(src, p, 4) IN
    IF ~r.ok THEN IoError(r.pos)
    ELSE Outcome("Ok", NoTag, "None", Zero32, 0, read_u32(r.buf), r.pos)

decode_ss(src, p) ==
    LET r == read_exact(src, p, 2) IN
    IF ~r.ok THEN IoError(r.pos)
    ELSE Outcome("Ok", NoTag, "None", Zero32, read_i16(r.buf), Zero32, r.pos)

decode_sl(src, p) ==
    LET r == read_exact(src, p, 4) IN
    IF ~r.ok THEN IoError(r.pos)
    ELSE Outcome("Ok", NoTag, "None", Zero32, 0, read_i32(r.buf), r.pos)

(* ------------------------------ inputs --------------------------------- *)

Tags == { <<2, 16>>, <<65534, 57344>> }

\* 26, 0xFFFF, 0x1001A, 0xFFFFFFFF
Lens == { <<0, 26>>, <<0, 65535>>, <<1, 26>>, <<65535, 65535>> }

\* the first element of a data set ranges over every header
Headers == [tag : Tags, vr : VRs, len : Lens]

\* later elements: one of each length category
FollowHeaders ==
    { [tag |-> <<2, 16>>, vr |-> "UI", len |-> <<0, 20>>],
      [tag |-> <<32736, 16>>, vr |-> "OB", len |-> <<65535, 65535>>] }

\* value bytes a caller writes after a header ("1.2" and its padding)
Values == { <<49, 46, 50, 0>> }

(* ------------------------------ actions -------------------------------- *)

NoRes == [op |-> "none", start |-> 0, end |-> 0, status |-> "none", tag |-> NoTag,
          vr |-> "None", len |-> Zero32, val |-> 0, val32 |-> Zero32]

NoHeader == [tag |-> NoTag, vr |-> "None", len |-> Zero32]

Init ==
    /\ sink = <<>>
    /\ wlog = <<>>
    /\ phase = "encoding"
    /\ source = <<>>
    /\ pos = 0
    /\ res = NoRes

\* to.write_all(bytes) on a buffer with room for them, remembered in wlog
Write(op, de, bytes) ==
    /\ phase = "encoding"
    /\ Len(sink) + Len(bytes) <= MaxBuf
    /\ sink' = sink \o bytes
    /\ wlog' = Append(wlog, [op |-> op, off |-> Len(sink), de |-> de])
    /\ UNCHANGED <<phase, source, pos, res>>

EncodeElementHeader ==
    \E de \in (IF sink = <<>> THEN Headers ELSE FollowHeaders) :
        Write("encode_element_header", de, encode_element_header(de))

EncodeItemHeader ==
    \E len \in Lens :
        Write("encode_item_header", [NoHeader EXCEPT !.len = len],
              encode_item_header(len))

EncodeItemDelimiter ==
    Write("encode_item_delimiter", NoHeader, encode_item_delimiter)

EncodeSequenceDelimiter ==
    Write("encode_sequence_delimiter", NoHeader, encode_sequence_delimiter)

WriteValue ==
    \E v \in Values : Write("write_all", NoHeader, v)

\* the written bytes, possibly short of their tail, become the source
Load ==
    /\ phase = "encoding"
    /\ \E cut \in 0..MaxCut :
        /\ cut <= Len(sink)
        /\ source' = SubSeq(sink, 1, Len(sink) - cut)
    /\ phase' = "decoding"
    /\ pos' = 0
    /\ UNCHANGED <<sink, wlog, res>>

\* one decoder call; a failed read_exact leaves the cursor where it was or
\* at the end of the source
Decode(op, r) ==
    /\ phase = "decoding"
    /\ IF r.status = "Io"
       THEN pos' \in {r.pos, Len(source)}
       ELSE pos' = r.pos
    /\ res' = [op |-> op, start |-> pos, end |-> pos', status |-> r.status,
               tag |-> r.tag, vr |-> r.vr, len |-> r.len, val |-> r.val,
               val32 |-> r.val32]
    /\ UNCHANGED <<sink, wlog, phase, source>>

DecodeHeader == Decode("decode_header", decode_header(source, pos))

DecodeItemHeader == Decode("decode_item_header", decode_item_header(source, pos))

DecodeUS == Decode("decode_us", decode_us(source, pos))

DecodeUL == Decode("decode_ul", decode_ul(source, pos))

DecodeSS == Decode("decode_ss", decode_ss(source, pos))

DecodeSL == Decode("decode_sl", decode_sl(source, pos))

\* between two decoder calls the caller reads or skips n value bytes itself
CallerRead ==
    /\ phase = "decoding"
    /\ pos = res.end
    /\ \E n \in 1..MaxRead :
        /\ pos + n <= Len(source)
        /\ pos' = pos + n
    /\ UNCHANGED <<sink, wlog, phase, source, res>>

Next ==
    \/ EncodeElementHeader
    \/ EncodeItemHeader
    \/ EncodeItemDelimiter
    \/ EncodeSequenceDelimiter
    \/ WriteValue
    \/ Load
    \/ DecodeHeader
    \/ DecodeItemHeader
    \/ DecodeUS
    \/ DecodeUL
    \/ DecodeSS
    \/ DecodeSL
    \/ CallerRead

Spec == Init /\ [][Next]_vars

TypeOK ==
    /\ \A i \in 1..Len(sink) : sink[i] \in 0..255
    /\ Len(sink) <= MaxBuf
    /\ pos \in 0..Len(source)

(* ------------------------- vocabulary of the claims -------------------- *)

LongFormVRs == {"OB", "OD", "OF", "OL", "OW", "SQ", "UC", "UR", "UT", "UN"}

HeaderSize(vr) == IF vr \in LongFormVRs THEN 12 ELSE 8

ItemTag == <<65534, 57344>>
ItemDelimiterTag == <<65534, 57357>>
SequenceDelimiterTag == <<65534, 57565>>

MarkerOps ==
    {"encode_item_header", "encode_item_delimiter", "encode_sequence_delimiter"}

MarkerTag(op) ==
    CASE op = "encode_item_header" -> ItemTag
      [] op = "encode_item_delimiter" -> ItemDelimiterTag
      [] op = "encode_sequence_delimiter" -> SequenceDelimiterTag

\* tag and 32-bit length as bytes, most significant first
TagBytes(tag) ==
    << tag[1] \div 256, tag[1] % 256, tag[2] \div 256, tag[2] % 256 >>

LenBytes(len) ==
    << len[1] \div 256, len[1] % 256, len[2] \div 256, len[2] % 256 >>

\* where the bytes of the i-th write end in the sink
WriteEnd(i) == IF i < Len(wlog) THEN wlog[i + 1].off ELSE Len(sink)

\* the bytes of the i-th write as they stand in the sink
Written(i) == SubSeq(sink, wlog[i].off + 1, WriteEnd(i))

\* the source byte k places after the start of the last decoder call
At(k) == source[res.start + k]

Avail == Len(source) - res.start

Codes == { e[2] : e \in VRTable }

ShortCodes == { e[2] : e \in { x \in VRTable : x[1] \notin LongFormVRs } }

\* the last decoder call started on the first byte of the i-th write and the
\* source holds n bytes from there
DecodedAt(op, i, n) ==
    /\ phase = "decoding"
    /\ res.op = op
    /\ res.start = wlog[i].off
    /\ wlog[i].off + n <= Len(source)

FitsField(de) == de.vr \in LongFormVRs \/ de.len[1] = 0

(* ------------------------------- claims -------------------------------- *)

\* C1: an element header whose len fits the length field of its VR's
\* category, written by encode_element_header and decoded by decode_header
\* from exactly the written bytes, comes back with the same tag, vr and len.
C1_RoundTrip ==
    \A i \in 1..Len(wlog) :
        ( /\ wlog[i].op = "encode_element_header"
          /\ FitsField(wlog[i].de)
          /\ DecodedAt("decode_header", i, HeaderSize(wlog[i].de.vr)) )
        => /\ res.status = "Ok"
           /\ res.tag = wlog[i].de.tag
           /\ res.vr = wlog[i].de.vr
           /\ res.len = wlog[i].de.len

C1_Witness ==
    \E i \in 1..Len(wlog) :
        /\ wlog[i].op = "encode_element_header"
        /\ wlog[i].de.vr = "UN"
        /\ wlog[i].de.len = <<65535, 65535>>
        /\ DecodedAt("decode_header", i, 12)
        /\ res.status = "Ok"

\* C2: each marker-encoding operation writes exactly 8 bytes: its fixed tag,
\* group then element, big-endian, followed by the length big-endian (len
\* for the item header, 0 for the two delimiters).
C2_MarkerBytes ==
    \A i \in 1..Len(wlog) :
        wlog[i].op \in MarkerOps
        => Written(i) = TagBytes(MarkerTag(wlog[i].op)) \o LenBytes(wlog[i].de.len)

\* C3: a successful decode_header advances the source position by exactly
\* 8 bytes for a short-form VR and 12 for a long-form VR, wherever in the
\* source the call starts, and leaves the source itself alone.
C3_ConsumesHeaderOnly ==
    [][ (DecodeHeader /\ res'.status = "Ok")
        => /\ pos' = pos + (IF res'.vr \in LongFormVRs THEN 12 ELSE 8)
           /\ source' = source ]_vars

C3_Witness ==
    /\ res.op = "decode_header"
    /\ res.status = "Ok"
    /\ res.start > 0
    /\ res.vr = "OB"
    /\ pos = res.start + 12

\* C4: encode_element_header writes 12 bytes for a long-form VR (tag, VR
\* code, two zero bytes, len on 4 bytes) and 8 bytes for any other VR (tag,
\* VR code, length on 2 bytes), all big-endian: the bytes standing in the
\* sink between the start of the header's write and the start of the next
\* write (or the end of the sink) are exactly that layout.
C4_Layout ==
    \A i \in 1..Len(wlog) :
        wlog[i].op = "encode_element_header"
        => LET de == wlog[i].de IN
           IF de.vr \in LongFormVRs
           THEN Written(i) =
                  TagBytes(de.tag) \o to_bytes(de.vr) \o <<0, 0>>
                     \o LenBytes(de.len)
           ELSE Written(i) =
                  TagBytes(de.tag) \o to_bytes(de.vr)
                     \o << de.len[2] \div 256, de.len[2] % 256 >>

C4_Witness ==
    /\ Len(wlog) = 2
    /\ wlog[1].op = "write_all"
    /\ wlog[2].op = "encode_element_header"
    /\ wlog[2].de.vr = "OB"
    /\ Len(sink) = 16

\* C5: when the two VR bytes of a header are no defined VR code,
\* decode_header still succeeds: it returns vr = UN, ignores the next two
\* bytes, takes the following four as len and consumes 12 bytes.
C5_UnknownVR ==
    ( /\ res.op = "decode_header"
      /\ Avail >= 12
      /\ <<At(5), At(6)>> \notin Codes )
    => /\ res.status = "Ok"
       /\ res.vr = "UN"
       /\ res.tag = << At(1) * 256 + At(2), At(3) * 256 + At(4) >>
       /\ res.len = << At(9) * 256 + At(10), At(11) * 256 + At(12) >>
       /\ res.end = res.start + 12

C5_Witness ==
    /\ res.op = "decode_header"
    /\ Avail >= 12
    /\ <<At(5), At(6)>> \notin Codes
    /\ <<At(7), At(8)>> # <<0, 0>>
    /\ res.vr = "UN"

\* C6: decode_header fails exactly when the source holds fewer bytes than
\* the header needs (8 for a short-form VR code, 12 otherwise), the failure
\* is an I/O error and carries no header; decode_item_header fails with an
\* I/O error when fewer than 8 bytes are left.
C6_ShortRead ==
    LET need == IF Avail >= 6 /\ <<At(5), At(6)>> \in ShortCodes
                THEN 8 ELSE 12
    IN  /\ res.op = "decode_header"
           => /\ res.status = (IF Avail < need THEN "Io" ELSE "Ok")
              /\ res.status = "Io"
                 => res.tag = NoTag /\ res.vr = "None" /\ res.len = Zero32
        /\ (res.op = "decode_item_header" /\ Avail < 8)
           => res.status = "Io" /\ res.tag = NoTag /\ res.len = Zero32

C6_Witness ==
    /\ res.op = "decode_header"
    /\ Avail \in 6..7
    /\ <<At(5), At(6)>> \in ShortCodes
    /\ res.status = "Io"

\* C7: decode_item_header reads exactly 8 bytes and returns an item header
\* with the tag and len it read if and only if the tag is one of the three
\* marker tags; for any other tag it returns the invalid-structure error.
C7_ItemHeader ==
    (res.op = "decode_item_header" /\ Avail >= 8)
    => LET tag == << At(1) * 256 + At(2), At(3) * 256 + At(4) >>
           len == << At(5) * 256 + At(6), At(7) * 256 + At(8) >>
       IN  /\ res.end = res.start + 8
           /\ IF tag \in {ItemTag, ItemDelimiterTag, SequenceDelimiterTag}
              THEN res.status = "Ok" /\ res.tag = tag /\ res.len = len
              ELSE res.status = "InvalidFormat"

C7_Witness ==
    /\ res.op = "decode_item_header"
    /\ res.status = "Ok"
    /\ res.tag = ItemTag
    /\ res.len[1] > 0

\* C8: decode_us and decode_ss consume 2 bytes, decode_ul and decode_sl 4;
\* the result is the big-endian reading of those bytes, two's-complement
\* for the signed ones.
C8_Scalars ==
    /\ (res.op = "decode_us" /\ res.status = "Ok")
       => /\ res.val = At(1) * 256 + At(2)
          /\ res.end = res.start + 2
    /\ (res.op = "decode_ss" /\ res.status = "Ok")
       => /\ res.val = At(1) * 256 + At(2) - (IF At(1) >= 128 THEN 65536 ELSE 0)
          /\ res.end = res.start + 2
    /\ (res.op = "decode_ul" /\ res.status = "Ok")
       => /\ res.val32 = << At(1) * 256 + At(2), At(3) * 256 + At(4) >>
          /\ res.end = res.start + 4
    /\ (res.op = "decode_sl" /\ res.status = "Ok")
       => /\ res.val32 = << At(1) * 256 + At(2)
                               - (IF At(1) >= 128 THEN 65536 ELSE 0),
                            At(3) * 256 + At(4) >>
          /\ res.end = res.start + 4
    /\ (res.op \in {"decode_us", "decode_ss"} /\ Avail >= 2) => res.status = "Ok"
    /\ (res.op \in {"decode_ul", "decode_sl"} /\ Avail >= 4) => res.status = "Ok"

C8_Witness ==
    /\ res.op = "decode_sl"
    /\ res.status = "Ok"
    /\ res.val32[1] < 0
    /\ res.val32[2] > 0

\* C9: for a short-form VR and len > 0xFFFF, encode_element_header still
\* writes exactly 8 bytes whose length field is len mod 2^16, and decoding
\* them returns the same tag and vr with len mod 2^16.
C9_Truncation ==
    \A i \in 1..Len(wlog) :
        ( /\ wlog[i].op = "encode_element_header"
          /\ wlog[i].de.vr \notin LongFormVRs
          /\ wlog[i].de.len[1] > 0 )
        => /\ Len(Written(i)) = 8
           /\ <<Written(i)[7], Written(i)[8]>>
                = << wlog[i].de.len[2] \div 256, wlog[i].de.len[2] % 256 >>
           /\ DecodedAt("decode_header", i, 8)
              => /\ res.status = "Ok"
                 /\ res.tag = wlog[i].de.tag
                 /\ res.vr = wlog[i].de.vr
                 /\ res.len = << 0, wlog[i].de.len[2] >>

C9_Witness ==
    \E i \in 1..Len(wlog) :
        /\ wlog[i].op = "encode_element_header"
        /\ wlog[i].de.vr = "UI"
        /\ wlog[i].de.len = <<1, 26>>
        /\ DecodedAt("decode_header", i, 8)
        /\ res.len = <<0, 26>>

\* C10: the 8 bytes written by encode_item_header(len), encode_item_delimiter
\* and encode_sequence_delimiter are accepted by decode_item_header, which
\* returns the marker's tag and the len written (len, 0 and 0).
C10_MarkerRoundTrip ==
    \A i \in 1..Len(wlog) :
        (wlog[i].op \in MarkerOps /\ DecodedAt("decode_item_header", i, 8))
        => /\ res.status = "Ok"
           /\ res.tag = MarkerTag(wlog[i].op)
           /\ res.len = wlog[i].de.len

====
